---------------------------- MODULE Spec2Model ----------------------------
(***************************************************************************)
(* Model of the Sherlock chatbot API (src/sherlock/api.py) and of its AI   *)
(* risk analyzer (src/sherlock/ai_risk_analyzer.py).                       *)
(*                                                                         *)
(* Texts are strings; a character is a string of length one.  Python's     *)
(* None is the value None below, which no query text and no username can   *)
(* equal.                                                                  *)
(***************************************************************************)
EXTENDS Naturals, Sequences, FiniteSets, TLC

VARIABLES
    pc,            \* position of the turn in chatbot_query
    context,       \* the caller's persisted last_username
    api_key,       \* whether GROQ_API_KEY is set in the environment
    message,       \* the ChatMessage of the turn: query, last_username
    query,         \* message.query.strip()
    query_type,    \* classify_query(query)
    username,      \* the username resolved for the turn
    found_sites,   \* what perform_username_search returned
    ai_analysis,   \* what analyze_account_suspicious returned
    result,        \* how chatbot_query ended: ChatResponse, HTTPException, None
    searchCalls,   \* perform_username_search calls of the turn
    genCalls,      \* client.chat.completions.create calls of the turn, in order
    call           \* an analyzer operation called directly: arguments, completions

vars == <<pc, context, api_key, message, query, query_type, username,
          found_sites, ai_analysis, result, searchCalls, genCalls, call>>

None == "<None>"

(***************************************************************************)
(* Characters and strings (Python str and re primitives).                  *)
(***************************************************************************)
At(s, i) == SubSeq(s, i, i)

UpperAlpha == "ABCDEFGHIJKLMNOPQRSTUVWXYZ"
LowerAlpha == "abcdefghijklmnopqrstuvwxyz"
Digits == "0123456789"

CharsOf(s) == {At(s, i) : i \in 1..Len(s)}

\* \s of re, and the separators of str.split() and str.strip()
Whitespace == {" ", "\t", "\n", "\r"}

\* [a-zA-Z0-9_-]
TokenChars == CharsOf(UpperAlpha) \cup CharsOf(LowerAlpha) \cup CharsOf(Digits) \cup {"_", "-"}

\* the lower-case letter of each upper-case letter
LowerOf ==
    [c \in CharsOf(UpperAlpha) |->
        At(LowerAlpha, CHOOSE i \in 1..Len(UpperAlpha) : At(UpperAlpha, i) = c)]

\* str.lower() of one character
LowerChar(c) == IF c \in DOMAIN LowerOf THEN LowerOf[c] ELSE c

RECURSIVE Lower(_)
\* str.lower()
Lower(s) ==
    IF s = "" THEN "" ELSE LowerChar(At(s, 1)) \o Lower(SubSeq(s, 2, Len(s)))

\* s[i:].startswith(kw), 1-based
StartsAt(s, i, kw) ==
    /\ i >= 1
    /\ i + Len(kw) - 1 <= Len(s)
    /\ SubSeq(s, i, i + Len(kw) - 1) = kw

\* kw in s
Contains(s, kw) == \E i \in 1..(Len(s) + 1) : StartsAt(s, i, kw)

\* any(keyword in s for keyword in keywords)
ContainsAny(s, keywords) == \E kw \in keywords : Contains(s, kw)

\* the first index >= i whose character is not in class (Len(s)+1 when none)
SpanEnd(s, i, class) ==
    CHOOSE j \in i..(Len(s) + 1) :
        /\ \A k \in i..(j - 1) : At(s, k) \in class
        /\ j = Len(s) + 1 \/ At(s, j) \notin class

\* str.strip(chars)
StripChars(s, chars) ==
    LET first == SpanEnd(s, 1, chars)
        last == IF first > Len(s) THEN Len(s)
                ELSE CHOOSE j \in first..Len(s) :
                        /\ At(s, j) \notin chars
                        /\ \A k \in (j + 1)..Len(s) : At(s, k) \in chars
    IN SubSeq(s, first, last)

\* str.strip()
Strip(s) == StripChars(s, Whitespace)

RECURSIVE SplitFrom(_, _)
SplitFrom(s, i) ==
    LET b == SpanEnd(s, i, Whitespace)
    IN IF b > Len(s) THEN <<>>
       ELSE LET e == SpanEnd(s, b, CharsOf(s) \ Whitespace)
            IN <<SubSeq(s, b, e - 1)>> \o SplitFrom(s, e)

\* str.split()
Split(s) == SplitFrom(s, 1)

(***************************************************************************)
(* Regular-expression pieces.  A matcher takes the position where it       *)
(* starts and gives the position after what it matched, 0 when it does not *)
(* match.                                                                  *)
(***************************************************************************)
\* a literal
Lit(s, i, kw) == IF i > 0 /\ StartsAt(s, i, kw) THEN i + Len(kw) ELSE 0

\* \s+
Spaces1(s, i) ==
    IF i > 0 /\ i <= Len(s) /\ At(s, i) \in Whitespace
    THEN SpanEnd(s, i, Whitespace) ELSE 0

\* ([a-zA-Z0-9_-]+) followed by no further token character
Token1(s, i) ==
    IF i > 0 /\ i <= Len(s) /\ At(s, i) \in TokenChars
    THEN SpanEnd(s, i, TokenChars) ELSE 0

\* s? after a literal
Opt(s, i, c) == IF i > 0 /\ StartsAt(s, i, c) THEN i + Len(c) ELSE i

\* re.search: groups[i] is where group 1 starts when the pattern matches from
\* position i, 0 when it does not match there.  The result is group 1 of the
\* leftmost match, None when nothing matches.
FirstGroup(s, groups) ==
    IF \E i \in 1..Len(s) : groups[i] > 0
    THEN LET i == CHOOSE k \in 1..Len(s) :
                     groups[k] > 0 /\ \A j \in 1..(k - 1) : groups[j] = 0
         IN SubSeq(s, groups[i], SpanEnd(s, groups[i], TokenChars) - 1)
    ELSE None

\* the start of a token after \s+ from position e, 0 when there is none
TokenAfter(s, e) ==
    LET g == Spaces1(s, e) IN IF g > 0 /\ Token1(s, g) > 0 THEN g ELSE 0

\* the first entry of ends after which \s+ and a token follow, as the start of
\* that token: the alternatives of (?:a|b|...) are tried in order
FirstAlternative(s, ends) ==
    IF \E k \in 1..Len(ends) : TokenAfter(s, ends[k]) > 0
    THEN TokenAfter(s, ends[CHOOSE k \in 1..Len(ends) :
                            /\ TokenAfter(s, ends[k]) > 0
                            /\ \A j \in 1..(k - 1) : TokenAfter(s, ends[j]) = 0])
    ELSE 0

(***************************************************************************)
(* classify_query                                                          *)
(***************************************************************************)
investigation_keywords ==
    {"find", "search", "locate", "accounts of", "check if", "impersonated", "impersonation"}

intelligence_keywords ==
    {"suspicious", "risk", "threat", "which platform", "highest risk", "dangerous"}

analysis_keywords ==
    {"risk score", "compare", "analyze", "analysis", "show score", "score"}

reporting_keywords ==
    {"report", "generate", "summarize", "summary", "findings"}

\* classify_query with the intelligence keywords tested before the
\* investigation keywords
classify_query_reordered(q) ==
    LET query_lower == Lower(q)
    IN IF ContainsAny(query_lower, intelligence_keywords) THEN "intelligence"
       ELSE IF ContainsAny(query_lower, investigation_keywords) THEN "investigation"
       ELSE IF ContainsAny(query_lower, analysis_keywords) THEN "analysis"
       ELSE IF ContainsAny(query_lower, reporting_keywords) THEN "reporting"
       ELSE "general"

classify_query(q) ==
    LET query_lower == Lower(q)
    IN IF ContainsAny(query_lower, investigation_keywords) THEN "investigation"
       ELSE IF ContainsAny(query_lower, intelligence_keywords) THEN "intelligence"
       ELSE IF ContainsAny(query_lower, analysis_keywords) THEN "analysis"
       ELSE IF ContainsAny(query_lower, reporting_keywords) THEN "reporting"
       ELSE "general"

(***************************************************************************)
(* extract_username                                                        *)
(***************************************************************************)
stop_words ==
    {"find", "all", "accounts", "of", "search", "for", "check", "if", "is", "show",
     "analyze", "generate", "report", "suspicious", "risk", "score", "platform",
     "highest", "which", "has", "threat", "threats", "profile", "level", "them",
     "this", "that", "these", "those", "what", "whats", "the", "a", "an", "and",
     "or", "but", "in", "on", "at", "to", "from", "with", "about", "give", "me",
     "my", "your", "their", "his", "her", "its", "our", "summary", "findings",
     "investigation", "create", "summarize", "name", "it", "him", "they",
     "tell", "please", "can", "you", "could", "would", "should", "want", "need",
     "like", "get", "see", "view", "display", "list", "info", "information"}

\* (?:accounts?\s+of|search\s+for|locate)\s+([a-zA-Z0-9_-]+)
Pattern1(s) ==
    FirstGroup(s, [i \in 1..Len(s) |->
        FirstAlternative(s,
            << Lit(s, Spaces1(s, Opt(s, Lit(s, i, "account"), "s")), "of"),
               Lit(s, Spaces1(s, Lit(s, i, "search")), "for"),
               Lit(s, i, "locate") >>)])

\* is\s+([a-zA-Z0-9_-]+)\s+suspicious
Pattern2(s) ==
    FirstGroup(s, [i \in 1..Len(s) |->
        LET g == TokenAfter(s, Lit(s, i, "is"))
        IN IF g > 0 /\ Lit(s, Spaces1(s, Token1(s, g)), "suspicious") > 0
           THEN g ELSE 0])

\* generate.*?for from position i, continued by \s+ and a token: the end of
\* the nearest "for" that can be continued, with no newline before it
GenerateFor(s, i) ==
    LET b == Lit(s, i, "generate")
        ok(f) == /\ StartsAt(s, f, "for")
                 /\ \A k \in b..(f - 1) : At(s, k) # "\n"
                 /\ TokenAfter(s, f + 3) > 0
    IN IF b > 0 /\ \E f \in b..Len(s) : ok(f)
       THEN 3 + CHOOSE f \in b..Len(s) : ok(f) /\ \A h \in b..(f - 1) : ~ok(h)
       ELSE 0

\* (?:show|analyze|check|report\s+for|generate.*?for|summary\s+for|score\s+for
\*    |score\s+of)\s+([a-zA-Z0-9_-]+)
Pattern3(s) ==
    FirstGroup(s, [i \in 1..Len(s) |->
        FirstAlternative(s,
            << Lit(s, i, "show"),
               Lit(s, i, "analyze"),
               Lit(s, i, "check"),
               Lit(s, Spaces1(s, Lit(s, i, "report")), "for"),
               GenerateFor(s, i),
               Lit(s, Spaces1(s, Lit(s, i, "summary")), "for"),
               Lit(s, Spaces1(s, Lit(s, i, "score")), "for"),
               Lit(s, Spaces1(s, Lit(s, i, "score")), "of") >>)])

\* (?:for|of)\s+([a-zA-Z0-9_-]+)(?:\s|$)
Pattern4(s) ==
    FirstGroup(s, [i \in 1..Len(s) |->
        LET g == FirstAlternative(s, << Lit(s, i, "for"), Lit(s, i, "of") >>)
            e == Token1(s, g)
        IN IF g > 0 /\ (e = Len(s) + 1 \/ At(s, e) \in Whitespace) THEN g ELSE 0])

\* word.lower().strip('.,!?;:')
word_clean(word) == StripChars(Lower(word), {".", ",", "!", "?", ";", ":"})

\* re.match(r'^[a-zA-Z0-9_-]{3,}$', w) and w not in stop_words
UsernameLike(w) ==
    /\ Len(w) >= 3
    /\ \A k \in 1..Len(w) : At(w, k) \in TokenChars
    /\ w \notin stop_words

\* for word in reversed(words): the last username-like word
Pattern5(q) ==
    LET words == Split(q)
    IN IF \E k \in 1..Len(words) : UsernameLike(word_clean(words[k]))
       THEN word_clean(words[CHOOSE k \in 1..Len(words) :
                /\ UsernameLike(word_clean(words[k]))
                /\ \A j \in (k + 1)..Len(words) : ~UsernameLike(word_clean(words[j]))])
       ELSE None

extract_username(q) ==
    LET query_lower == Lower(q)
        m1 == Pattern1(query_lower)
        m2 == Pattern2(query_lower)
        m3 == Pattern3(query_lower)
        m4 == Pattern4(query_lower)
    IN IF m1 # None /\ m1 \notin stop_words THEN m1
       ELSE IF m2 # None /\ m2 \notin stop_words THEN m2
       ELSE IF m3 # None /\ m3 \notin stop_words THEN m3
       ELSE IF m4 # None /\ m4 \notin stop_words /\ Len(m4) >= 3 THEN m4
       ELSE Pattern5(q)

(***************************************************************************)
(* Python values.  A dict is a function from keys to values; a float is    *)
(* written in tenths (50 is 5.0).                                          *)
(***************************************************************************)
\* bool(x) of an Optional[str]
Truthy(x) == x # None /\ x # ""

\* a or b
Or(a, b) == IF Truthy(a) THEN a ELSE b

EmptyDict == [k \in {} |-> None]

\* None where a dict is expected
NoDict == [kind |-> "None", dict |-> EmptyDict]

\* a dict value
Dict(d) == [kind |-> "dict", dict |-> d]

\* Update that keeps the values d already has
Update_setdefault(d, more) ==
    [k \in DOMAIN d \cup DOMAIN more |-> IF k \in DOMAIN d THEN d[k] ELSE more[k]]

\* d with d[key] = value for every key of the dict more
Update(d, more) ==
    [k \in DOMAIN d \cup DOMAIN more |-> IF k \in DOMAIN more THEN more[k] ELSE d[k]]

\* d[k] for every k of keys is defined (no KeyError, no TypeError)
HasKeys(v, keys) == v.kind = "dict" /\ keys \subseteq DOMAIN v.dict

RECURSIVE Decimal(_)
\* str(n)
Decimal(n) == IF n < 10 THEN At(Digits, n + 1)
              ELSE Decimal(n \div 10) \o At(Digits, (n % 10) + 1)

(***************************************************************************)
(* The text-generation service.  A call either raises or returns a         *)
(* completion with a content text.                                         *)
(***************************************************************************)
AssessmentText ==
    "{\"risk_score\": 7.5, \"is_suspicious\": true, \"risk_level\": \"High\", "
    \o "\"indicators\": [\"Presence on high-risk platforms\"], "
    \o "\"explanation\": \"Pattern consistent with throwaway accounts.\"}"

AssessmentJson ==
    [risk_score |-> 75, is_suspicious |-> TRUE, risk_level |-> "High",
     indicators |-> <<"Presence on high-risk platforms">>,
     explanation |-> "Pattern consistent with throwaway accounts."]

PlatformText ==
    "{\"platform\": \"Telegram\", \"reason\": \"Common in scams\", \"risk_score\": 8.0}"

PlatformJson ==
    [platform |-> "Telegram", reason |-> "Common in scams", risk_score |-> 80]

PartialText == "{\"risk_score\": 7.5}"

\* an assessment that names another username and another account total
OverridingText ==
    "{\"username\": \"mallory\", \"total_accounts\": 99, \"risk_score\": 2.0, "
    \o "\"is_suspicious\": false, \"risk_level\": \"Low\", \"indicators\": [], "
    \o "\"explanation\": \"Ordinary footprint.\"}"

\* an assessment outside the score range and the level names of the prompt
OutOfRangeText ==
    "{\"risk_score\": 42, \"is_suspicious\": true, \"risk_level\": \"Severe\", "
    \o "\"indicators\": [], \"explanation\": \"\"}"

\* one level of nested objects
NestedText ==
    "{\"platform\": \"Telegram\", \"reason\": \"Common in scams\", \"risk_score\": 8.0, "
    \o "\"evidence\": {\"reports\": 3}}"

\* two levels of nested objects
DeepText ==
    "{\"risk_score\": 9.0, \"risk_level\": \"Critical\", "
    \o "\"evidence\": {\"platforms\": {\"flagged\": 3}}}"

\* a brace inside a string value
BraceStringText == "{\"risk_score\": 3.0, \"explanation\": \"handle ends with }\"}"

\* completions cut off by max_tokens
TruncatedText == "{\"risk_score\": 7.5, \"is_susp"

TruncatedNestedText ==
    "{\"risk_score\": 9.1, \"evidence\": {\"reports\": 3}, \"indicators\": [\"Pres"

RefusalText == "I cannot help with that."

\* the well-formed JSON objects among the contents
JsonObjectTexts ==
    {AssessmentText, PlatformText, PartialText, "{}", OverridingText, OutOfRangeText,
     NestedText, DeepText, BraceStringText}

ContentBodies ==
    JsonObjectTexts \cup {TruncatedText, TruncatedNestedText, RefusalText, "5"}

\* json.loads(content): the decoded value, or JSONDecodeError.  The texts
\* listed are the well-formed JSON texts that the contents and their parts
\* give; every other text of the model is rejected by json.loads.
json_loads(content) ==
    LET text == Strip(content)
    IN CASE text = AssessmentText -> Dict(AssessmentJson)
         [] text = PlatformText -> Dict(PlatformJson)
         [] text = PartialText -> Dict([risk_score |-> 75])
         [] text = "{}" -> Dict(EmptyDict)
         [] text = OverridingText ->
                Dict([username |-> "mallory", total_accounts |-> 99, risk_score |-> 20,
                      is_suspicious |-> FALSE, risk_level |-> "Low", indicators |-> <<>>,
                      explanation |-> "Ordinary footprint."])
         [] text = OutOfRangeText ->
                Dict([risk_score |-> 420, is_suspicious |-> TRUE, risk_level |-> "Severe",
                      indicators |-> <<>>, explanation |-> ""])
         [] text = NestedText ->
                Dict([platform |-> "Telegram", reason |-> "Common in scams",
                      risk_score |-> 80, evidence |-> [reports |-> 3]])
         [] text = DeepText ->
                Dict([risk_score |-> 90, risk_level |-> "Critical",
                      evidence |-> [platforms |-> [flagged |-> 3]]])
         [] text = BraceStringText ->
                Dict([risk_score |-> 30, explanation |-> "handle ends with }"])
         [] text = "{\"reports\": 3}" -> Dict([reports |-> 3])
         [] text = "{\"platforms\": {\"flagged\": 3}}" -> Dict([platforms |-> [flagged |-> 3]])
         [] text = "5" -> [kind |-> "scalar", dict |-> EmptyDict]
         [] OTHER -> [kind |-> "JSONDecodeError", dict |-> EmptyDict]

\* The back quote of a code fence.  A TLA+ string cannot hold a back quote,
\* so the character is written as a tilde, which no other text contains.
Tick == "~"

\* the code fence marker
Fence == Tick \o Tick \o Tick

\* the index after the match that starts at i of ^(fence)json\s* (fence_json),
\* ^(fence)\s* (fence_open) or \s*(fence)$ (fence_close), 0 when the pattern
\* does not match at i (re.MULTILINE: ^ after a newline, $ before one)
FenceMatch(s, i, pattern) ==
    LET bol == i = 1 \/ At(s, i - 1) = "\n"
    IN CASE pattern = "fence_json" ->
              IF bol /\ StartsAt(s, i, Fence \o "json") THEN SpanEnd(s, i + 7, Whitespace) ELSE 0
         [] pattern = "fence_open" ->
              IF bol /\ StartsAt(s, i, Fence) THEN SpanEnd(s, i + 3, Whitespace) ELSE 0
         [] pattern = "fence_close" ->
              IF At(s, i) \in Whitespace \cup {Tick}
              THEN LET j == SpanEnd(s, i, Whitespace)
                   IN IF StartsAt(s, j, Fence) /\ (j + 3 > Len(s) \/ At(s, j + 3) = "\n")
                      THEN j + 3 ELSE 0
              ELSE 0

\* the least index of a non-empty set of indices
First(indices) == CHOOSE k \in indices : \A m \in indices : k <= m

RECURSIVE SubFrom(_, _, _)
\* re.sub(pattern, "", s, flags=re.MULTILINE) from index i on: the matches
\* are taken leftmost first and do not overlap
SubFrom(s, i, pattern) ==
    LET starts == {k \in i..Len(s) : FenceMatch(s, k, pattern) > 0}
    IN IF starts = {} THEN SubSeq(s, i, Len(s))
       ELSE SubSeq(s, i, First(starts) - 1)
            \o SubFrom(s, FenceMatch(s, First(starts), pattern), pattern)

\* the first index >= i of a brace, 0 when there is none: the end of [^{}]*
BraceFrom(s, i) ==
    LET braces == {k \in i..Len(s) : At(s, k) \in {"{", "}"}}
    IN IF braces = {} THEN 0 ELSE First(braces)

RECURSIVE ObjectEnd(_, _)
\* [^{}]*(?:\{[^{}]*\}[^{}]*)*\} matched from index j: the index after the
\* match, 0 when there is none
ObjectEnd(s, j) ==
    LET b == BraceFrom(s, j)
    IN IF b = 0 THEN 0
       ELSE IF At(s, b) = "}" THEN b + 1
       ELSE LET c == BraceFrom(s, b + 1)
            IN IF c = 0 \/ At(s, c) = "{" THEN 0 ELSE ObjectEnd(s, c + 1)

RECURSIVE json_match(_, _)
\* re.search(r'\{[^{}]*(?:\{[^{}]*\}[^{}]*)*\}', s, re.DOTALL) from index i
\* on: group(0), or None
json_match(s, i) ==
    LET b == BraceFrom(s, i)
    IN IF b = 0 THEN None
       ELSE IF At(s, b) = "{" /\ ObjectEnd(s, b + 1) > 0
       THEN SubSeq(s, b, ObjectEnd(s, b + 1) - 1)
       ELSE json_match(s, b + 1)

\* CleanContent that removes no fence marker and extracts no span
CleanContent_stripped(content) == Strip(content)

\* content.strip() and the three re.sub of the fence markers
Unfenced(content) ==
    SubFrom(SubFrom(SubFrom(Strip(content), 1, "fence_json"), 1, "fence_open"),
            1, "fence_close")

\* if json_match: content = json_match.group(0)
GroupOr(matched, content) == IF matched # None THEN matched ELSE content

\* the text handed to json.loads: the stripped content without its fence
\* markers, or the first object-looking span of it when there is one
CleanContent(content) == GroupOr(json_match(Unfenced(content), 1), Unfenced(content))

\* what one call of client.chat.completions.create does
GeneratorOutcomes ==
    {[raises |-> TRUE, content |-> ""]} \cup
    {[raises |-> FALSE, content |-> body] :
        body \in {TruncatedText, "5", "{}", PartialText, AssessmentText, PlatformText}}

(***************************************************************************)
(* AIRiskAnalyzer.  Each operation gives its return value and the          *)
(* generation calls it issued.                                             *)
(***************************************************************************)
FallbackScore == 50

Fallback(u, sites, indicator) ==
    [kind |-> "dict",
     dict |-> [username |-> u, risk_score |-> FallbackScore, is_suspicious |-> FALSE,
               risk_level |-> "Medium", indicators |-> <<indicator>>,
               explanation |-> indicator, total_accounts |-> Len(sites)]]

\* the return of analyze_account_suspicious for an empty site list
NoAccounts(u) ==
    Dict([username |-> u, risk_score |-> 0, is_suspicious |-> FALSE,
          risk_level |-> "Unknown", indicators |-> <<"No accounts found">>,
          explanation |-> "No accounts found", total_accounts |-> 0])

\* the rest of the try block of analyze_account_suspicious, after
\* json.loads gave decoded or raised JSONDecodeError
Assessed(u, sites, decoded) ==
    IF decoded.kind = "JSONDecodeError"
    THEN Fallback(u, sites, "AI analysis produced invalid JSON")
    ELSE IF decoded.kind # "dict"
    \* ai_analysis['username'] = username raises TypeError
    THEN Fallback(u, sites, "AI error")
    ELSE Dict(Update(decoded.dict, [username |-> u, total_accounts |-> Len(sites)]))

\* analyze_account_suspicious that repeats a generation call that raised
analyze_account_suspicious_retrying(u, sites, gen) ==
    IF sites = <<>> THEN [value |-> NoAccounts(u), calls |-> <<>>]
    ELSE IF gen.raises
    THEN [value |-> Fallback(u, sites, "AI error"),
          calls |-> <<"analyze_account_suspicious", "analyze_account_suspicious">>]
    ELSE [value |-> Assessed(u, sites, json_loads(CleanContent(gen.content))),
          calls |-> <<"analyze_account_suspicious">>]

\* analyze_account_suspicious without the check of an empty site list
analyze_account_suspicious_unguarded(u, sites, gen) ==
    [value |-> IF gen.raises THEN Fallback(u, sites, "AI error")
               ELSE Assessed(u, sites, json_loads(CleanContent(gen.content))),
     calls |-> <<"analyze_account_suspicious">>]

analyze_account_suspicious(u, sites, gen) ==
    IF sites = <<>> THEN [value |-> NoAccounts(u), calls |-> <<>>]
    ELSE [value |-> IF gen.raises THEN Fallback(u, sites, "AI error")
                    ELSE Assessed(u, sites, json_loads(CleanContent(gen.content))),
          calls |-> <<"analyze_account_suspicious">>]

\* str(e) of the exception that ended the try block
ExceptionText(gen) ==
    IF gen.raises THEN "generation call failed" ELSE "JSON decoding failed"

\* the record of the except branch of find_highest_risk_platform
PlatformFallback(sites, gen) ==
    Dict([platform |-> sites[1].site,
          reason |-> "AI analysis unavailable: " \o ExceptionText(gen),
          risk_score |-> FallbackScore])

\* the return of find_highest_risk_platform for an empty site list
NoPlatform ==
    Dict([platform |-> "None", reason |-> "No accounts found", risk_score |-> 0])

\* PlatformOf that returns a decoded record only when it names a platform
\* of the list
PlatformOf_listed(sites, gen, decoded) ==
    IF /\ HasKeys(decoded, {"platform"})
       /\ \E i \in 1..Len(sites) : sites[i].site = decoded.dict["platform"]
    THEN decoded
    ELSE PlatformFallback(sites, gen)

\* the end of find_highest_risk_platform, after json.loads gave decoded or
\* raised JSONDecodeError: return json.loads(content)
PlatformOf(sites, gen, decoded) ==
    IF decoded.kind = "JSONDecodeError" THEN PlatformFallback(sites, gen) ELSE decoded

find_highest_risk_platform(u, sites, gen) ==
    IF sites = <<>> THEN [value |-> NoPlatform, calls |-> <<>>]
    ELSE [value |-> IF gen.raises THEN PlatformFallback(sites, gen)
                    ELSE PlatformOf(sites, gen, json_loads(CleanContent(gen.content))),
          calls |-> <<"find_highest_risk_platform">>]

\* risk_analysis.get(k, default)
Get(risk_analysis, k, default) ==
    IF k \in DOMAIN risk_analysis.dict THEN risk_analysis.dict[k] ELSE default

\* ReportOf without the except branch
ReportOf_raising(u, sites, risk_analysis, gen) ==
    IF gen.raises THEN [template |-> "exception"]
    ELSE [template |-> "generated_report", content |-> Strip(gen.content)]

\* the try block of generate_risk_report and its except branch
ReportOf(u, sites, risk_analysis, gen) ==
    IF gen.raises
    THEN [template |-> "fallback_report", username |-> u, accounts |-> Len(sites),
          risk_score |-> Get(risk_analysis, "risk_score", "N/A"),
          risk_level |-> Get(risk_analysis, "risk_level", "Unknown"),
          explanation |-> Get(risk_analysis, "explanation", "Analysis incomplete")]
    ELSE [template |-> "generated_report", content |-> Strip(gen.content)]

\* the report and the calls, given the assessment and the calls made for it
Reported(u, sites, assessed, gen) ==
    [value |-> ReportOf(u, sites, assessed.value, gen),
     calls |-> assessed.calls \o <<"generate_risk_report">>]

\* gen_assess is the outcome of the generation call made for the assessment
\* when risk_analysis is None or empty (if not risk_analysis)
generate_risk_report(u, sites, risk_analysis, gen_assess, gen) ==
    Reported(u, sites,
             IF risk_analysis.kind = "dict" /\ DOMAIN risk_analysis.dict # {}
             THEN [value |-> risk_analysis, calls |-> <<>>]
             ELSE analyze_account_suspicious(u, sites, gen_assess),
             gen)

(***************************************************************************)
(* Query texts: the queries the chatbot advertises (the docstring and the  *)
(* help text of chatbot_query) and every text of at most MaxWords words of *)
(* Vocabulary.                                                             *)
(***************************************************************************)
AdvertisedQueries ==
    {"Find all accounts of john_doe",
     "Search for username alice_2024",
     "Locate accounts for bob123",
     "Is john_doe suspicious?",
     "Is this account suspicious?",
     "Which platform has highest risk?",
     "Which platform has highest risk for alice_2024?",
     "Analyze threats for bob123",
     "Show risk score for john_doe",
     "Analyze profile alice_2024",
     "What's the risk level for bob123?",
     "Generate investigation report for john_doe",
     "Create summary for alice_2024",
     "Summarize findings for bob123"}

Vocabulary ==
    {"Find", "accounts of", "search for", "alice_2024", "jo", "Is",
     "suspicious?", "RISK", "score", "report", "now"}

MaxWords == 3

RECURSIVE Join(_)
\* " ".join(words)
Join(words) ==
    IF words = <<>> THEN ""
    ELSE IF Len(words) = 1 THEN words[1]
    ELSE words[1] \o " " \o Join(Tail(words))

Texts ==
    AdvertisedQueries \cup
    {Join(words) : words \in UNION {[1..n -> Vocabulary] : n \in 0..MaxWords}}

(***************************************************************************)
(* chatbot_query: one turn of the conversation.                            *)
(***************************************************************************)
Queries ==
    AdvertisedQueries \cup
    {"Find all accounts of alice_2024", "Find accounts of carol",
     "show all accounts of carol", "Is bob123 suspicious?", "report", "score",
     "hello", ""}

MaxSites == 12

DefaultDisplayLimit == 10

SiteName(i) == "Site" \o Decimal(i)

\* what perform_username_search returns when n sites are CLAIMED
Sites(u, n) == [i \in 1..n |-> [site |-> SiteName(i), url |-> SiteName(i) \o "/" \o u]]

\* no analyzer operation is called directly
NoCall == [op |-> "none"]

\* chatbot_query has not ended
NoResult == [kind |-> "pending"]

\* data and last_username default to None
ChatResponse(q, qtype, text, data, last) ==
    [kind |-> "ChatResponse", query |-> q, response |-> text, query_type |-> qtype,
     timestamp |-> "isoformat", data |-> data, last_username |-> last]

\* except Exception as e: raise HTTPException(status_code=500, detail=...e...)
HTTPException(e) == [kind |-> "HTTPException", status_code |-> 500, detail |-> e]

\* the function ends without a return statement
ReturnsNone == [kind |-> "None"]

\* ResolveUsername with every intent falling back to the context
ResolveUsername_context(qtype, q, context_username) ==
    IF qtype = "general" THEN None ELSE Or(extract_username(q), context_username)

\* the username of the turn: investigation and intelligence fall back to the
\* context, analysis and reporting do not; general resolves none
ResolveUsername(qtype, q, context_username) ==
    IF qtype \in {"investigation", "intelligence"}
    THEN Or(extract_username(q), context_username)
    ELSE IF qtype \in {"analysis", "reporting"} THEN extract_username(q)
    ELSE None

\* last_username=username if "username" in locals() else context_username
LocalsUsername(qtype, u, context_username) ==
    IF qtype = "general" THEN context_username ELSE u

show_all_keywords == {"show all", "show more", "all accounts", "full list", "complete list"}

\* the investigation reply for a non-empty site list
InvestigationReply(q, u, sites) ==
    LET show_all == ContainsAny(Lower(q), show_all_keywords)
        display_limit == IF show_all THEN Len(sites) ELSE DefaultDisplayLimit
        shown == IF display_limit < Len(sites) THEN display_limit ELSE Len(sites)
    IN [template |-> "investigation_results", username |-> u, found |-> Len(sites),
        listed |-> [i \in 1..shown |-> sites[i].site],
        more |-> IF Len(sites) > display_limit THEN Len(sites) - display_limit ELSE 0]

\* "which platform" in query_lower and ("highest risk" in query_lower or ...)
AsksHighestRiskPlatform(q) ==
    /\ Contains(Lower(q), "which platform")
    /\ Contains(Lower(q), "highest risk") \/ Contains(Lower(q), "most risk")

Init ==
    /\ pc = "idle"
    /\ context = None
    /\ api_key \in BOOLEAN
    /\ message = [query |-> "", last_username |-> None]
    /\ query = ""
    /\ query_type = None
    /\ username = None
    /\ found_sites = <<>>
    /\ ai_analysis = NoDict
    /\ result = NoResult
    /\ searchCalls = 0
    /\ genCalls = <<>>
    /\ call = NoCall

\* the caller posts a ChatMessage carrying the last_username it holds
Receive ==
    /\ pc = "idle"
    /\ \E q \in Queries : message' = [query |-> q, last_username |-> context]
    /\ pc' = "received"
    /\ query' = ""
    /\ query_type' = None
    /\ username' = None
    /\ found_sites' = <<>>
    /\ ai_analysis' = NoDict
    /\ result' = NoResult
    /\ searchCalls' = 0
    /\ genCalls' = <<>>
    /\ UNCHANGED <<call, context, api_key>>

\* Route without the check of ai_available
Route_unchecked ==
    /\ pc = "received"
    /\ LET q == Strip(message.query)
           qtype == classify_query(q)
           context_username == message.last_username
           u == ResolveUsername(qtype, q, context_username)
       IN /\ query' = q
          /\ query_type' = qtype
          /\ username' = u
          /\ IF qtype = "general"
             THEN /\ result' = ChatResponse(q, "general", [template |-> "help"], NoDict,
                                         LocalsUsername(qtype, u, context_username))
                  /\ pc' = "replied"
             ELSE IF ~Truthy(u)
             THEN /\ result' = ChatResponse(q, qtype, [template |-> "clarification"], NoDict,
                                 IF qtype = "investigation" THEN context_username
                                 ELSE LocalsUsername(qtype, u, context_username))
                  /\ pc' = "replied"
             ELSE /\ result' = NoResult
                  /\ pc' = "searching"
    /\ UNCHANGED <<call, context, api_key, message, found_sites, ai_analysis,
                   searchCalls, genCalls>>

\* classification, analyzer construction, username resolution and the replies
\* that need no search
Route ==
    /\ pc = "received"
    /\ LET q == Strip(message.query)
           qtype == classify_query(q)
           context_username == message.last_username
           ai_available == api_key
           u == ResolveUsername(qtype, q, context_username)
       IN /\ query' = q
          /\ query_type' = qtype
          /\ username' = u
          /\ IF qtype = "general"
             THEN /\ result' = ChatResponse(q, "general", [template |-> "help"], NoDict,
                                         LocalsUsername(qtype, u, context_username))
                  /\ pc' = "replied"
             ELSE IF ~Truthy(u)
             THEN /\ result' = ChatResponse(q, qtype, [template |-> "clarification"], NoDict,
                                 IF qtype = "investigation" THEN context_username
                                 ELSE LocalsUsername(qtype, u, context_username))
                  /\ pc' = "replied"
             ELSE IF qtype # "investigation" /\ ~ai_available
             THEN /\ result' = ChatResponse(q, qtype, [template |-> "not_configured"], NoDict,
                                         LocalsUsername(qtype, u, context_username))
                  /\ pc' = "replied"
             ELSE /\ result' = NoResult
                  /\ pc' = "searching"
    /\ UNCHANGED <<call, context, api_key, message, found_sites, ai_analysis,
                   searchCalls, genCalls>>

\* the reply of an intelligence turn, or the HTTPException its formatting ends in
PlatformAnswer(q, u, sites, platform_info) ==
    IF HasKeys(platform_info, {"platform", "risk_score", "reason"})
    THEN ChatResponse(q, "intelligence",
             [template |-> "highest_risk_platform", username |-> u,
              platform |-> platform_info.dict["platform"], total |-> Len(sites)],
             Dict([username |-> u, highest_risk_platform |-> platform_info.dict,
                   total_platforms |-> Len(sites)]),
             None)
    ELSE HTTPException(IF platform_info.kind = "dict" THEN "KeyError" ELSE "TypeError")

AssessmentKeys == {"is_suspicious", "risk_score", "risk_level", "indicators", "explanation"}

SuspiciousAnswer(q, qtype, u, sites, analysis) ==
    IF HasKeys(analysis, AssessmentKeys)
    THEN ChatResponse(q, qtype,
             [template |-> "risk_analysis", username |-> u,
              risk_score |-> analysis.dict["risk_score"],
              risk_level |-> analysis.dict["risk_level"], total |-> Len(sites)],
             IF qtype = "intelligence"
             THEN Dict([username |-> u, ai_analysis |-> analysis.dict, found_sites |-> sites])
             ELSE Dict([username |-> u, ai_analysis |-> analysis.dict]),
             None)
    ELSE HTTPException("KeyError")

\* perform_username_search returns n CLAIMED sites; the branches that need no
\* generation call reply
PerformSearch ==
    /\ pc = "searching"
    /\ searchCalls' = searchCalls + 1
    /\ \E n \in 0..MaxSites :
         LET sites == Sites(username, n)
         IN /\ found_sites' = sites
            /\ IF query_type = "investigation"
               THEN /\ result' = ChatResponse(query, query_type,
                                     IF n > 0 THEN InvestigationReply(query, username, sites)
                                     ELSE [template |-> "no_accounts", username |-> username],
                                     Dict([username |-> username, found_count |-> n,
                                           sites |-> sites]),
                                     username)
                    /\ pc' = "replied"
               ELSE IF n > 0
               THEN /\ result' = NoResult
                    /\ pc' = "analyzing"
               ELSE IF query_type = "intelligence"
               \* response is assigned and no return statement follows
               THEN /\ result' = ReturnsNone
                    /\ pc' = "replied"
               ELSE /\ result' = ChatResponse(query, query_type,
                                     [template |-> "no_accounts", username |-> username],
                                     IF query_type = "analysis"
                                     THEN Dict([username |-> username, ai_analysis |-> None])
                                     ELSE Dict([username |-> username,
                                                report_type |-> "full_analysis"]),
                                     None)
                    /\ pc' = "replied"
    /\ UNCHANGED <<call, context, api_key, message, query, query_type, username,
                   ai_analysis, genCalls>>

\* the search collaborator raises
SearchFails ==
    /\ pc = "searching"
    /\ searchCalls' = searchCalls + 1
    /\ result' = HTTPException("search")
    /\ pc' = "replied"
    /\ UNCHANGED <<call, context, api_key, message, query, query_type, username,
                   found_sites, ai_analysis, genCalls>>

\* the analyzer call of the intelligence, analysis and reporting branches and
\* the reply built from it
Analyze ==
    /\ pc = "analyzing"
    /\ \E gen \in GeneratorOutcomes :
         IF query_type = "intelligence" /\ AsksHighestRiskPlatform(query)
         THEN \E r \in {find_highest_risk_platform(username, found_sites, gen)} :
                 /\ genCalls' = genCalls \o r.calls
                 /\ ai_analysis' = ai_analysis
                 /\ result' = PlatformAnswer(query, username, found_sites, r.value)
                 /\ pc' = "replied"
         ELSE \E r \in {analyze_account_suspicious(username, found_sites, gen)} :
                 /\ genCalls' = genCalls \o r.calls
                 /\ ai_analysis' = r.value
                 /\ IF query_type = "reporting"
                    THEN /\ result' = NoResult
                         /\ pc' = "reporting"
                    ELSE /\ result' = SuspiciousAnswer(query, query_type, username,
                                                       found_sites, r.value)
                         /\ pc' = "replied"
    /\ UNCHANGED <<call, context, api_key, message, query, query_type, username,
                   found_sites, searchCalls>>

\* generate_risk_report(username, found_sites, ai_analysis) and the reply
Report ==
    /\ pc = "reporting"
    /\ \E gen_assess \in GeneratorOutcomes, gen \in GeneratorOutcomes :
         \E r \in {generate_risk_report(username, found_sites, ai_analysis, gen_assess, gen)} :
            /\ genCalls' = genCalls \o r.calls
            /\ result' = ChatResponse(query, query_type,
                              [template |-> "investigation_report", report |-> r.value],
                              Dict([username |-> username, report_type |-> "full_analysis"]),
                              None)
    /\ pc' = "replied"
    /\ UNCHANGED <<call, context, api_key, message, query, query_type, username,
                   found_sites, ai_analysis, searchCalls>>

\* the caller keeps the last_username of the response it got
Deliver ==
    /\ pc = "replied"
    /\ pc' = "idle"
    /\ context' = IF result.kind = "ChatResponse" THEN result.last_username ELSE context
    /\ UNCHANGED <<call, api_key, message, query, query_type, username, found_sites,
                   ai_analysis, result, searchCalls, genCalls>>

Next == Receive \/ Route \/ PerformSearch \/ SearchFails \/ Analyze \/ Report \/ Deliver

Spec == Init /\ [][Next]_vars

(***************************************************************************)
(* The classifier and the extractor applied to every text.                 *)
(***************************************************************************)
TextInit ==
    /\ pc = "text"
    /\ message \in [query : Texts, last_username : {None}]
    /\ context = None
    /\ api_key = FALSE
    /\ query = ""
    /\ query_type = None
    /\ username = None
    /\ found_sites = <<>>
    /\ ai_analysis = NoDict
    /\ result = NoResult
    /\ searchCalls = 0
    /\ genCalls = <<>>
    /\ call = NoCall

Classify ==
    /\ pc = "text"
    /\ pc' = "classified"
    /\ query_type' = classify_query(message.query)
    /\ UNCHANGED <<call, context, api_key, message, query, username, found_sites,
                   ai_analysis, result, searchCalls, genCalls>>

Extract ==
    /\ pc = "classified"
    /\ pc' = "extracted"
    /\ username' = extract_username(message.query)
    /\ UNCHANGED <<call, context, api_key, message, query, query_type, found_sites,
                   ai_analysis, result, searchCalls, genCalls>>

TextNext == Classify \/ Extract

SpecText == TextInit /\ [][TextNext]_vars

(***************************************************************************)
(* The analyzer operations called directly, on every completion.           *)
(***************************************************************************)
MaxCallSites == 2

Usernames == {"bob123", "alice_2024"}

\* the texts around the body of a content: nothing, a json fence, a plain
\* fence, a fence within prose, a fence on the line of the prose, prose
\* alone, and prose that holds braces
Wrappings ==
    {<<"", "">>,
     <<Fence \o "json\n", "\n" \o Fence>>,
     <<Fence \o "\n", "\n" \o Fence \o "\n">>,
     <<"Here is the analysis:\n" \o Fence \o "json\n",
       "\n" \o Fence \o "\nLet me know if you need more.">>,
     <<"Answer: " \o Fence \o "json ", " " \o Fence>>,
     <<"Sure! ", " Done.">>,
     <<"Result {draft}:\n" \o Fence \o "json\n", "\n" \o Fence>>}

Completions ==
    {[raises |-> TRUE, prefix |-> "", body |-> "", suffix |-> ""]} \cup
    {[raises |-> FALSE, prefix |-> w[1], body |-> body, suffix |-> w[2]] :
        w \in Wrappings, body \in ContentBodies}

\* the completions of the report call: the report text is not decoded
ReportCompletions == {c \in Completions : c.prefix = "" /\ c.suffix = ""}

\* response.choices[0].message.content, or the exception of the call
Outcome(c) == [raises |-> c.raises, content |-> c.prefix \o c.body \o c.suffix]

\* the risk_analysis argument of generate_risk_report: None, an empty dict,
\* an assessment, an assessment without its fields
SuppliedAssessments ==
    {NoDict, Dict(EmptyDict), Dict([risk_score |-> 75]),
     Dict(Update(AssessmentJson, [username |-> "bob123", total_accounts |-> 2]))}

\* if not risk_analysis
Supplied(risk_analysis) == risk_analysis.kind = "dict" /\ DOMAIN risk_analysis.dict # {}

Calls ==
    [op : {"analyze_account_suspicious", "find_highest_risk_platform"},
     username : Usernames, found_sites : {Sites("x", n) : n \in 0..MaxCallSites},
     risk_analysis : {NoDict}, completions : {<<c>> : c \in Completions}]
    \cup
    [op : {"generate_risk_report"},
     username : Usernames, found_sites : {Sites("x", n) : n \in 0..MaxCallSites},
     risk_analysis : {a \in SuppliedAssessments : ~Supplied(a)},
     completions : {<<c, r>> : c \in Completions, r \in ReportCompletions}]
    \cup
    [op : {"generate_risk_report"},
     username : Usernames, found_sites : {Sites("x", n) : n \in 0..MaxCallSites},
     risk_analysis : {a \in SuppliedAssessments : Supplied(a)},
     completions : {<<r>> : r \in ReportCompletions}]

AnalyzerInit ==
    /\ pc = "called"
    /\ call \in Calls
    /\ context = None
    /\ api_key = TRUE
    /\ message = [query |-> "", last_username |-> None]
    /\ query = ""
    /\ query_type = None
    /\ username = None
    /\ found_sites = <<>>
    /\ ai_analysis = NoDict
    /\ result = NoResult
    /\ searchCalls = 0
    /\ genCalls = <<>>

AnalyzeCall ==
    /\ pc = "called"
    /\ call.op = "analyze_account_suspicious"
    /\ \E r \in {analyze_account_suspicious(call.username, call.found_sites,
                                            Outcome(call.completions[1]))} :
          /\ result' = r.value
          /\ genCalls' = r.calls
    /\ pc' = "returned"
    /\ UNCHANGED <<call, context, api_key, message, query, query_type, username,
                   found_sites, ai_analysis, searchCalls>>

PlatformCall ==
    /\ pc = "called"
    /\ call.op = "find_highest_risk_platform"
    /\ \E r \in {find_highest_risk_platform(call.username, call.found_sites,
                                            Outcome(call.completions[1]))} :
          /\ result' = r.value
          /\ genCalls' = r.calls
    /\ pc' = "returned"
    /\ UNCHANGED <<call, context, api_key, message, query, query_type, username,
                   found_sites, ai_analysis, searchCalls>>

ReportCall ==
    /\ pc = "called"
    /\ call.op = "generate_risk_report"
    /\ \E r \in {generate_risk_report(call.username, call.found_sites,
                                      call.risk_analysis,
                                      Outcome(call.completions[1]),
                                      Outcome(call.completions[Len(call.completions)]))} :
          /\ result' = r.value
          /\ genCalls' = r.calls
    /\ pc' = "returned"
    /\ UNCHANGED <<call, context, api_key, message, query, query_type, username,
                   found_sites, ai_analysis, searchCalls>>

AnalyzerNext == AnalyzeCall \/ PlatformCall \/ ReportCall

SpecAnalyzer == AnalyzerInit /\ [][AnalyzerNext]_vars

(***************************************************************************)
(* Claims about chatbot_query (specification Spec).                        *)
(***************************************************************************)
SearchFailed == result = HTTPException("search")

\* C1: whenever the search collaborator does not fail, a turn ends in a
\* response object carrying query, response, query_type and timestamp: never
\* in an error and never without a response.
C1_AlwaysWellFormedResponse ==
    (pc = "replied" /\ ~SearchFailed) =>
        /\ result.kind = "ChatResponse"
        /\ {"query", "response", "query_type", "timestamp"} \subseteq DOMAIN result

\* C2: an intelligence turn with a resolved username and a configured
\* generator whose search finds no site returns a reply saying that no
\* accounts were found, and makes no generation call.
C2_NoAccountsReply ==
    (/\ pc = "replied" /\ query_type = "intelligence" /\ Truthy(username) /\ api_key
     /\ searchCalls = 1 /\ ~SearchFailed /\ found_sites = <<>>) =>
        /\ genCalls = <<>>
        /\ result.kind = "ChatResponse"
        /\ result.response.template = "no_accounts"

\* C3: an investigation reply lists at most 10 of the N found sites unless the
\* text holds the "show all" cue, and then all N; when fewer than N are listed
\* the notice gives the number not shown; and "Find all accounts of
\* alice_2024" with 12 sites lists 10 with a notice of 2 more and returns
\* last_username alice_2024.
C3_DisplayCap ==
    (/\ pc = "replied" /\ query_type = "investigation"
     /\ result.kind = "ChatResponse" /\ found_sites # <<>>) =>
        LET N == Len(found_sites)
            listed == Len(result.response.listed)
        IN /\ Contains(Lower(query), "show all") => listed = N
           /\ ~Contains(Lower(query), "show all") =>
                  listed = IF N < DefaultDisplayLimit THEN N ELSE DefaultDisplayLimit
           /\ listed < N => result.response.more = N - listed
           /\ (query = "Find all accounts of alice_2024" /\ N = 12) =>
                  /\ username = "alice_2024"
                  /\ listed = 10
                  /\ result.response.more = 2
                  /\ result.last_username = "alice_2024"

\* C4: after every turn in which a username was resolved, the last_username
\* returned to the caller is that username.
C4_ContextUpdated ==
    (pc = "replied" /\ result.kind = "ChatResponse" /\ Truthy(username)) =>
        result.last_username = username

\* C5: in every turn in which no username is resolved, the returned
\* last_username is the last_username of the request.
C5_ContextPreserved ==
    (pc = "replied" /\ result.kind = "ChatResponse" /\ ~Truthy(username)) =>
        result.last_username = message.last_username

\* C6: an analysis or reporting turn whose text yields no username returns
\* the clarification prompt and makes no search call and no generation call,
\* whatever last_username the request carries.
C6_TextOnlyResolution ==
    (/\ pc \notin {"idle", "received"}
     /\ query_type \in {"analysis", "reporting"}
     /\ extract_username(query) = None) =>
        /\ pc = "replied"
        /\ result.kind = "ChatResponse"
        /\ result.response.template = "clarification"
        /\ searchCalls = 0
        /\ genCalls = <<>>

\* "report" with the request's last_username "carol" ends in the
\* clarification prompt
C6_Witness ==
    /\ pc = "replied"
    /\ query = "report"
    /\ message.last_username = "carol"
    /\ result.response.template = "clarification"

\* C10: in an intelligence turn whose advertised text names no username and
\* whose request carries a last_username, extract_username yields nothing and
\* the username that is searched is the request's last_username.
C10_ContextFallback ==
    (/\ pc = "searching"
     /\ query_type = "intelligence"
     /\ query \in {"Is this account suspicious?", "Which platform has highest risk?"}
     /\ Truthy(message.last_username)) =>
        /\ extract_username(query) = None
        /\ username = message.last_username

(***************************************************************************)
(* Claims about classify_query and extract_username (specification         *)
(* SpecText).                                                              *)
(***************************************************************************)
\* C7: the example queries advertised for the analysis intent classify as
\* analysis.
C7_AdvertisedAnalysis ==
    (/\ pc # "text"
     /\ message.query \in {"Show risk score for john_doe", "Analyze profile alice_2024",
                           "What's the risk level for bob123?"}) =>
        query_type = "analysis"

IntentOrder == <<"investigation", "intelligence", "analysis", "reporting">>

KeywordsOf(intent) ==
    CASE intent = "investigation" -> investigation_keywords
      [] intent = "intelligence" -> intelligence_keywords
      [] intent = "analysis" -> analysis_keywords
      [] intent = "reporting" -> reporting_keywords

\* kw occurs in text, letter case ignored
OccursIgnoringCase(text, kw) ==
    \E i \in 1..Len(text) :
        /\ i + Len(kw) - 1 <= Len(text)
        /\ \A j \in 1..Len(kw) : LowerChar(At(text, i + j - 1)) = At(kw, j)

\* the intents, by their place in the order, one of whose keywords occurs
Hits(text) ==
    {k \in 1..Len(IntentOrder) :
        \E kw \in KeywordsOf(IntentOrder[k]) : OccursIgnoringCase(text, kw)}

\* C8: every text classifies as exactly one of the five intents: the first
\* intent in the fixed order one of whose keywords occurs in the text, letter
\* case ignored, and general when none occurs.
C8_TotalPriorityOrder ==
    pc # "text" =>
        LET hits == Hits(message.query)
        IN /\ query_type \in {"investigation", "intelligence", "analysis", "reporting",
                              "general"}
           /\ query_type = IF hits = {} THEN "general"
                           ELSE IntentOrder[CHOOSE k \in hits : \A h \in hits : k <= h]

\* a text with an upper-case investigation keyword and an intelligence keyword
\* classifies as investigation
C8_Witness ==
    /\ pc = "classified"
    /\ {1, 2} \subseteq Hits(message.query)
    /\ ~ContainsAny(message.query, investigation_keywords)
    /\ query_type = "investigation"

\* C9: for a text containing "accounts of X", X a token that is no stop word,
\* extract_username returns X lower-cased, whatever precedes or follows.
C9_AccountsOf ==
    pc = "extracted" =>
        \A i \in 1..Len(message.query) :
            (/\ StartsAt(message.query, i, "accounts of ")
             /\ \A h \in 1..(i - 1) : ~StartsAt(message.query, h, "accounts of ")
             /\ Token1(message.query, i + 12) > 0) =>
                LET X == Lower(SubSeq(message.query, i + 12,
                                      Token1(message.query, i + 12) - 1))
                IN X \notin stop_words => username = X

(***************************************************************************)
(* Claims about the analyzer.                                              *)
(***************************************************************************)
\* the completion of the call's scoring or platform generation
Completion == call.completions[1]

\* the call has returned from an operation that decodes its completion
DecodingCallReturned ==
    /\ pc = "returned"
    /\ call.op \in {"analyze_account_suspicious", "find_highest_risk_platform"}
    /\ call.found_sites # <<>>
    /\ ~Completion.raises

\* what the operation of the call returns for the content text alone
ReturnedFor(text) ==
    IF call.op = "analyze_account_suspicious"
    THEN analyze_account_suspicious(call.username, call.found_sites,
                                    [raises |-> FALSE, content |-> text]).value
    ELSE find_highest_risk_platform(call.username, call.found_sites,
                                    [raises |-> FALSE, content |-> text]).value

\* the fields that analyze_account_suspicious sets itself
Overwritten == {"username", "total_accounts"}

\* the returned record has the top-level fields of the JSON object J
HasFieldsOf(J) ==
    /\ result.kind = "dict"
    /\ DOMAIN J \subseteq DOMAIN result.dict
    /\ \A k \in DOMAIN J \ Overwritten : result.dict[k] = J[k]

BraceFree(s) == \A k \in 1..Len(s) : At(s, k) \notin {"{", "}"}

\* the index k of the JSON text s lies inside a string
InString(s, k) == Cardinality({q \in 1..(k - 1) : At(s, q) = "\""}) % 2 = 1

BraceInString(s) == \E k \in 1..Len(s) : At(s, k) \in {"{", "}"} /\ InString(s, k)

\* the depth of the objects of the JSON text s: 1 for an object without
\* nested objects
ObjectDepth(s) ==
    LET braces == {k \in 1..Len(s) : At(s, k) \in {"{", "}"} /\ ~InString(s, k)}
        level(k) == Cardinality({b \in braces : b <= k /\ At(s, b) = "{"})
                    - Cardinality({b \in braces : b < k /\ At(s, b) = "}"})
    IN IF braces = {} THEN 0
       ELSE CHOOSE d \in 0..Cardinality(braces) :
                /\ \E k \in braces : level(k) = d
                /\ \A k \in braces : level(k) <= d

\* C11: for every well-formed JSON object J, the output that wraps J in code
\* fence markers and prose is decoded, by analyze_account_suspicious and by
\* find_highest_risk_platform, to the same record as J alone, and the record
\* has the top-level fields of J.
C11_ParseRoundTrip ==
    (DecodingCallReturned /\ Completion.body \in JsonObjectTexts) =>
        /\ result = ReturnedFor(Completion.body)
        /\ HasFieldsOf(json_loads(Completion.body).dict)

\* C11 amended: the same for every J with at most one level of nested
\* objects and no brace inside a string, within prose that holds no brace.
C11_ParseRoundTripOneLevel ==
    (/\ DecodingCallReturned
     /\ Completion.body \in JsonObjectTexts
     /\ ObjectDepth(Completion.body) <= 2
     /\ ~BraceInString(Completion.body)
     /\ BraceFree(Completion.prefix)
     /\ BraceFree(Completion.suffix)) =>
        /\ result = ReturnedFor(Completion.body)
        /\ HasFieldsOf(json_loads(Completion.body).dict)

\* an object with a nested object, fenced within prose, is decoded to its
\* own fields
C11_Witness ==
    /\ DecodingCallReturned
    /\ Completion.body = NestedText
    /\ Completion.prefix = "Here is the analysis:\n" \o Fence \o "json\n"
    /\ result.kind = "dict"
    /\ result.dict["evidence"] = [reports |-> 3]

\* the record is the fallback of analyze_account_suspicious
IsFallback(v) ==
    /\ HasKeys(v, {"risk_score", "risk_level", "is_suspicious"})
    /\ v.dict["risk_score"] = 50
    /\ v.dict["risk_level"] = "Medium"
    /\ v.dict["is_suspicious"] = FALSE

\* C12: for every generator output that is truncated or otherwise invalid
\* JSON, analyze_account_suspicious on a non-empty site list returns the
\* fallback record: risk_score 5.0, risk_level Medium, is_suspicious false.
C12_InvalidJsonFallback ==
    (/\ DecodingCallReturned
     /\ call.op = "analyze_account_suspicious"
     /\ Completion.prefix = "" /\ Completion.suffix = ""
     /\ json_loads(Completion.body).kind = "JSONDecodeError") =>
        IsFallback(result)

RiskAssessmentFields ==
    {"username", "risk_score", "is_suspicious", "risk_level", "indicators", "explanation",
     "total_accounts"}

RiskLevels == {"Low", "Medium", "High", "Critical", "Unknown"}

\* C13: every record returned by analyze_account_suspicious is a well-typed
\* RiskAssessment: it has username, risk_score, is_suspicious, risk_level,
\* indicators, explanation and total_accounts, its risk_score lies in
\* [0, 10] and its risk_level is Low, Medium, High, Critical or Unknown.
C13_WellTypedAssessment ==
    (pc = "returned" /\ call.op = "analyze_account_suspicious") =>
        /\ HasKeys(result, RiskAssessmentFields)
        /\ result.dict["risk_score"] \in 0..100
        /\ result.dict["risk_level"] \in RiskLevels

\* C14: with an empty site list analyze_account_suspicious returns
\* risk_score 0.0, is_suspicious false and total_accounts 0, and
\* find_highest_risk_platform returns the record of platform "None"; neither
\* issues a generation call.
C14_EmptySitesNoGeneration ==
    (pc = "returned" /\ call.found_sites = <<>>) =>
        /\ call.op = "analyze_account_suspicious" =>
              /\ HasKeys(result, {"risk_score", "is_suspicious", "total_accounts"})
              /\ result.dict["risk_score"] = 0
              /\ result.dict["is_suspicious"] = FALSE
              /\ result.dict["total_accounts"] = 0
              /\ genCalls = <<>>
        /\ call.op = "find_highest_risk_platform" =>
              /\ HasKeys(result, {"platform"})
              /\ result.dict["platform"] = "None"
              /\ genCalls = <<>>

\* analyze_account_suspicious has returned for no sites and a completion
\* that would have decoded
C14_Witness ==
    /\ pc = "returned"
    /\ call.op = "analyze_account_suspicious"
    /\ call.found_sites = <<>>
    /\ Completion.body = AssessmentText
    /\ result.dict["risk_level"] = "Unknown"
    /\ genCalls = <<>>

\* C15: on every return path of analyze_account_suspicious the record's
\* total_accounts is the number of sites passed in and its username is the
\* username passed in, also when the generator's JSON supplies other values.
C15_UsernameAndTotalOfTheCall ==
    (pc = "returned" /\ call.op = "analyze_account_suspicious") =>
        /\ HasKeys(result, {"username", "total_accounts"})
        /\ result.dict["username"] = call.username
        /\ result.dict["total_accounts"] = Len(call.found_sites)

\* the generator named mallory and 99 accounts; the record names the caller's
\* username and two accounts, with the generator's other fields
C15_Witness ==
    /\ pc = "returned"
    /\ call.op = "analyze_account_suspicious"
    /\ Len(call.found_sites) = 2
    /\ Completion.body = OverridingText
    /\ json_loads(Completion.body).dict["username"] = "mallory"
    /\ HasKeys(result, {"username", "total_accounts", "risk_level"})
    /\ result.dict["risk_level"] = "Low"
    /\ result.dict["username"] = call.username
    /\ result.dict["total_accounts"] = 2

AIIntents == {"intelligence", "analysis", "reporting"}

\* the turn has ended in a ChatResponse of the template
RepliedWith(template) ==
    /\ result.kind = "ChatResponse"
    /\ result.response.template = template

\* C16: without the generator credential every intelligence, analysis and
\* reporting turn ends in the "not configured" reply, a normal response, and
\* no generation call is attempted in any turn.
C16_NotConfiguredEveryTurn ==
    ~api_key =>
        /\ genCalls = <<>>
        /\ (pc = "replied" /\ query_type \in AIIntents) => RepliedWith("not_configured")

\* C16 amended: without the credential an intelligence, analysis or
\* reporting turn that resolves a username ends in the "not configured"
\* reply, and one that resolves none ends in the clarification prompt; no
\* turn issues a generation call, and investigation and general turns reply
\* as they do with the credential.
C16_NotConfiguredWhenUsernameResolved ==
    ~api_key =>
        /\ genCalls = <<>>
        /\ (pc = "replied" /\ query_type \in AIIntents) =>
              /\ searchCalls = 0
              /\ RepliedWith(IF Truthy(username) THEN "not_configured" ELSE "clarification")
        /\ (pc = "replied" /\ query_type = "general") => RepliedWith("help")
        /\ (pc = "replied" /\ query_type = "investigation") =>
              IF ~Truthy(username) THEN RepliedWith("clarification")
              ELSE IF searchCalls = 1 /\ result.kind = "ChatResponse"
              THEN result.response =
                      IF found_sites # <<>>
                      THEN InvestigationReply(query, username, found_sites)
                      ELSE [template |-> "no_accounts", username |-> username]
              ELSE result = HTTPException("search")

\* a reporting turn for a named account without the credential
C16_Witness ==
    /\ ~api_key
    /\ pc = "replied"
    /\ query_type = "reporting"
    /\ Truthy(username)
    /\ RepliedWith("not_configured")
    /\ genCalls = <<>>

\* C17: find_highest_risk_platform on a non-empty list: when the generation
\* call or the decoding of its output fails, it returns the record that
\* names the first platform of the list, with risk_score 5.0 and a reason
\* citing the failure; when the output decodes, it returns the generator's
\* record unchanged, also when the record names a platform not in the list.
C17_PlatformFallbackOrUnchanged ==
    (pc = "returned" /\ call.op = "find_highest_risk_platform" /\ call.found_sites # <<>>) =>
        LET content == Outcome(Completion).content
            failed == \/ Completion.raises
                      \/ json_loads(CleanContent(content)).kind = "JSONDecodeError"
        IN /\ failed =>
                /\ HasKeys(result, {"platform", "reason", "risk_score"})
                /\ result.dict["platform"] = call.found_sites[1].site
                /\ result.dict["risk_score"] = 50
                /\ StartsAt(result.dict["reason"], 1, "AI analysis unavailable: ")
                /\ Len(result.dict["reason"]) > Len("AI analysis unavailable: ")
           /\ ~failed => result = json_loads(CleanContent(content))
           /\ (~Completion.raises /\ Completion.body \in {TruncatedText, RefusalText}) => failed
           /\ (/\ ~Completion.raises
               /\ Completion.body = PlatformText
               /\ BraceFree(Completion.prefix)) =>
                    result = Dict(PlatformJson)

\* the generator named Telegram, which is no platform of the list
C17_Witness ==
    /\ pc = "returned"
    /\ call.op = "find_highest_risk_platform"
    /\ Len(call.found_sites) = 2
    /\ Completion.body = PlatformText
    /\ result = Dict(PlatformJson)
    /\ \A i \in 1..Len(call.found_sites) : call.found_sites[i].site # "Telegram"

\* the assessment generate_risk_report works from
ReportAssessment ==
    IF Supplied(call.risk_analysis) THEN call.risk_analysis
    ELSE analyze_account_suspicious(call.username, call.found_sites,
                                    Outcome(call.completions[1])).value

\* the completion of the report generation
ReportCompletion == call.completions[Len(call.completions)]

\* C18: generate_risk_report always returns a report text: it computes the
\* assessment with analyze_account_suspicious when none is supplied, returns
\* the generator's text when the generation call succeeds, and on a failure
\* returns the fixed-template report built from the assessment's risk_score,
\* risk_level and explanation.
C18_ReportAlwaysReturned ==
    (pc = "returned" /\ call.op = "generate_risk_report") =>
        LET assessment == ReportAssessment.dict
        IN /\ result.template \in {"generated_report", "fallback_report"}
           /\ ~ReportCompletion.raises =>
                result = [template |-> "generated_report",
                          content |-> Strip(Outcome(ReportCompletion).content)]
           /\ ReportCompletion.raises =>
                /\ result.template = "fallback_report"
                /\ result.username = call.username
                /\ result.accounts = Len(call.found_sites)
                /\ result.risk_level = IF "risk_level" \in DOMAIN assessment
                                       THEN assessment["risk_level"] ELSE "Unknown"
                /\ result.explanation = IF "explanation" \in DOMAIN assessment
                                        THEN assessment["explanation"]
                                        ELSE "Analysis incomplete"
                /\ IF "risk_score" \in DOMAIN assessment
                   THEN result.risk_score = assessment["risk_score"]
                   ELSE result.risk_score = "N/A"
           /\ genCalls = (IF Supplied(call.risk_analysis) \/ call.found_sites = <<>>
                          THEN <<>> ELSE <<"analyze_account_suspicious">>)
                         \o <<"generate_risk_report">>

\* no assessment was supplied, the scoring decoded and the report generation
\* failed: the fixed-template report carries the computed assessment
C18_Witness ==
    /\ pc = "returned"
    /\ call.op = "generate_risk_report"
    /\ call.risk_analysis = NoDict
    /\ call.found_sites # <<>>
    /\ call.completions[1].body = AssessmentText
    /\ call.completions[1].prefix = ""
    /\ ReportCompletion.raises
    /\ result.template = "fallback_report"
    /\ result.risk_level = "High"
    /\ genCalls = <<"analyze_account_suspicious", "generate_risk_report">>

(***************************************************************************)
(* The analyzer called by chatbot_query or directly.                       *)
(***************************************************************************)
AllInit == Init \/ AnalyzerInit

AllNext == Next \/ AnalyzerNext

SpecAll == AllInit /\ [][AllNext]_vars

Scoring == "analyze_account_suspicious"

Reporting == "generate_risk_report"

\* C19: no generation call is retried.  analyze_account_suspicious and
\* find_highest_risk_platform issue at most one generation call each,
\* generate_risk_report at most one and one more for the assessment it
\* computes; after a failed call the operation returns its fallback without
\* another call; a turn of chatbot_query issues at most two generation
\* calls, the scoring and then the report of a reporting turn, and at most
\* one for every other intent.
C19_NoGenerationRetry ==
    /\ Len(genCalls) <= 2
    /\ (pc = "returned" /\ call.op = Scoring) =>
          /\ genCalls = IF call.found_sites = <<>> THEN <<>> ELSE <<Scoring>>
          /\ (call.found_sites # <<>> /\ Completion.raises) => IsFallback(result)
    /\ (pc = "returned" /\ call.op = "find_highest_risk_platform") =>
          /\ genCalls = IF call.found_sites = <<>> THEN <<>>
                        ELSE <<"find_highest_risk_platform">>
          /\ (call.found_sites # <<>> /\ Completion.raises) =>
                result = PlatformFallback(call.found_sites, Outcome(Completion))
    /\ (pc = "returned" /\ call.op = Reporting) =>
          /\ genCalls \in {<<Reporting>>, <<Scoring, Reporting>>}
          /\ ReportCompletion.raises => result.template = "fallback_report"
    /\ (call = NoCall /\ query_type = "reporting") =>
          /\ genCalls \in {<<>>, <<Scoring>>, <<Scoring, Reporting>>}
          /\ pc \in {"replied", "idle"} => genCalls # <<Scoring>>
    /\ (call = NoCall /\ query_type # "reporting") => Len(genCalls) <= 1

\* a reporting turn has replied after the scoring call and the report call
C19_Witness ==
    /\ pc = "replied"
    /\ query_type = "reporting"
    /\ result.kind = "ChatResponse"
    /\ genCalls = <<Scoring, Reporting>>

==========================================================================
